---------------------------- MODULE Spec2Model ----------------------------
(***************************************************************************)
(* Dependency resolution of code-review-cli: getDependencies and its      *)
(* inner processFile (src/dependencies/index.js), called by the scan      *)
(* command with the changed files and a depth option.                     *)
(*                                                                         *)
(* The project is a finite set of paths.  imports[p] is what               *)
(* extractDependencies(p) yields: the resolved paths of p's import         *)
(* statements, in source order.  realpath[p] is the file a path names      *)
(* once symlinks are followed; the traversal itself never asks for it.     *)
(* files[p] is what loadFile, the parsers, the python3 child and the       *)
(* resolver find at p; where files can fail, imports[p] is computed from   *)
(* it by extractDependenciesOf.  scan is the crc command line and the     *)
(* configuration on the way to the maxDepth it passes; loading is one     *)
(* call of loadFiles, which the command uses for the changed files and    *)
(* for the returned dependencies.                                         *)
(***************************************************************************)
EXTENDS Integers, Sequences, FiniteSets, TLC

\* ------------------------------------------------------------------ bounds
MaxImports  == 2      \* import statements per file
MaxSize     == 5      \* roots plus import statements in the whole project
LiveMaxSize == 4      \* the same, where whole behaviours are checked
MaxRoots    == 2      \* changed files handed to getDependencies
MaxDepthArg == 2      \* largest finite depth option
MaxStack    == 5      \* nested processFile activations
IoMaxSize   == 3      \* roots plus import statements, where files can fail
MaxOdd      == 1      \* files and statements that are not the plain kind
MaxPresent  == 2      \* candidate paths of one specifier that exist on disk
PairMaxSize == 3      \* roots plus import statements, where two calls run
MaxFiles    == 2      \* paths handed to one call of loadFiles

\* JavaScript's Infinity: larger than any depth a traversal can reach
Infinity == 1000

Paths == {"a", "b", "c", "d"}

Range(s) == {s[i] : i \in 1..Len(s)}

SeqsUpTo(S, n) == UNION {[1..k -> S] : k \in 0..n}

\* the depth values the scan command can pass
Depths == (1..MaxDepthArg) \cup {Infinity}

\* how many import statements each file has: at most MaxImports, and at
\* most edges in the whole project
Shapes(edges) ==
  {n \in [Paths -> 0..MaxImports] : n["a"] + n["b"] + n["c"] + n["d"] <= edges}

\* the paths some file of S imports
Imported(g, S) == UNION {Range(g[p]) : p \in S}

\* the paths reached from the frontier by a chain of 1..d imports, given
\* those already seen
RECURSIVE Layers(_, _, _, _)
Layers(g, frontier, seen, d) ==
  LET new == Imported(g, frontier) \ seen
  IN IF d = 0 \/ new = {} THEN seen
     ELSE Layers(g, new, seen \cup new, d - 1)

\* the paths within d import hops of some root
Reach(g, roots, d) == Layers(g, roots, {}, d)

\* p occurs in s only after q has occurred
After(s, p, q) ==
  \A i \in 1..Len(s) : s[i] = p => \E j \in 1..(i - 1) : s[j] = q

\* the names a, b, c, d are given in the order of first mention in s
NamedInOrder(s) == After(s, "b", "a") /\ After(s, "c", "b") /\ After(s, "d", "c")

\* the root lists considered
RootLists == {r \in SeqsUpTo(Paths, MaxRoots) \ {<<>>} : NamedInOrder(r)}

\* The projects considered for a root list, one per renaming of the paths:
\* the paths are named in the order the roots, then the files a, b, c, d,
\* mention them, and a file no root reaches, which no call ever reads, has
\* no imports.
Project(roots, g) ==
  /\ NamedInOrder(roots \o g["a"] \o g["b"] \o g["c"] \o g["d"])
  /\ \A p \in Paths \ (Range(roots) \cup Reach(g, Range(roots), Infinity)) :
       g[p] = <<>>

\* a path is either a file of its own or a symlink to another file, whose
\* content (and so whose imports) it then shares; at most one path that the
\* call reaches is a symlink
Realpaths(g, roots) ==
  LET seen == Range(roots) \cup Reach(g, Range(roots), Infinity)
  IN {[p \in Paths |-> p]} \cup
     {[p \in Paths |-> IF p = lt[1] THEN lt[2] ELSE p] :
        lt \in {x \in seen \X seen : g[x[1]] = g[x[2]]}}

VARIABLES
  imports,        \* file system: path -> resolved imports, in source order
  realpath,       \* file system: path -> canonical path
  filePaths,      \* getDependencies argument: the roots
  maxDepth,       \* second argument passed by the scan command
  dependencyMap,  \* the Map's entries in insertion order; foundBy and level
                  \* record the importing file and the nesting of the call
                  \* that made the entry (history the code does not keep)
  processed,      \* the Set of paths processFile has entered
  stack,          \* suspended processFile activations, innermost last
  rootIdx,        \* position of the for loop over filePaths
  pc,             \* "run" while the call is pending, "done" once it
                  \* returned, "thrown" once it rejected
  result,         \* the returned array
  files,          \* file system: path -> what the loader, the parsers and
                  \* the resolver find there
  settles,        \* path -> how the promise of extractDependencies(path)
                  \* ends: "returns" (imports[path]), "throws" or "pending"
  resolving,      \* one call of resolveImportPath: its arguments, what the
                  \* file system answers, and its outcome
  other,          \* a second getDependencies call on the same file system:
                  \* its roots, Map, Set, activations, loop position,
                  \* pc and result
  scan,           \* the crc command around the call: its command line, the
                  \* two configuration files, and how far it got
  loading         \* one call of loadFiles: what the disk holds for each
                  \* path, the loadFile promises settled so far, its return

vars == <<imports, realpath, filePaths, maxDepth, dependencyMap, processed,
          stack, rootIdx, pc, result, files, settles, resolving, other,
          scan, loading>>

\* what a step of the first getDependencies call leaves alone
aside == <<resolving, other>>

\* what a call is given and never writes, and what the command around it
\* holds
input == <<imports, realpath, filePaths, maxDepth, files, settles, scan,
           loading>>

\* ------------------------------------------------- files, as the code sees them
\* A file record: ext is the extension (".js" stands for the four JavaScript
\* ones), load is what loadFile yields ("content", "empty" for '' and
\* "skipped" for unreadable, binary or oversized), syntax tells whether the
\* Babel parser accepts the text, python is what the python3 child does
\* ("answers" with a JSON list, "fails", or "hangs" without ever exiting),
\* reread is whether the second readFile succeeds, and content is the import
\* statements of the text in document order.
\* A statement: form is "import" or "require" (JavaScript), "import" or
\* "from" (Python), "indented" for an import nested in a block and "quoted"
\* for import text inside a comment or a string; a form of the other
\* language is no import; source is "relative" ('./x'), "bare" ('x') or "absolute";
\* installed tells whether node_modules holds an entry of that name; to is
\* the file next to the importer that the specifier names, or "gone".

NULL == "null"

Returns(v) == [status |-> "returns", value |-> v]

Throws == [status |-> "throws", value |-> <<>>]

Pending == [status |-> "pending", value |-> <<>>]

\* the list of suffixes resolveImportPath tries, in its order
extensions == <<"", ".js", ".jsx", ".ts", ".tsx", ".py", "/index.js", "/index.ts">>

\* variant of ProbeFrom: no try around fs.stat
RECURSIVE ProbeFromNoCatch(_, _)
ProbeFromNoCatch(stat, i) ==
  IF i > Len(extensions) THEN Returns(0)
  ELSE IF stat[i] = "file" THEN Returns(i)
  ELSE IF stat[i] = "error" THEN Throws
  ELSE ProbeFromNoCatch(stat, i + 1)

\* variant of ProbeFrom: the first candidate that exists is returned
RECURSIVE ProbeFromAnyKind(_, _)
ProbeFromAnyKind(stat, i) ==
  IF i > Len(extensions) THEN Returns(0)
  ELSE IF stat[i] \in {"file", "dir"} THEN Returns(i)
  ELSE ProbeFromAnyKind(stat, i + 1)

\* the for loop over extensions from position i on.  stat[i] is what fs.stat
\* finds at resolved + extensions[i]: "file", "dir", "none" (the stat
\* rejects, no such entry) or "error" (the stat rejects otherwise); a
\* rejection is caught and the loop continues.  The value is the position
\* of the suffix returned, 0 for null.
RECURSIVE ProbeFrom(_, _)
ProbeFrom(stat, i) ==
  IF i > Len(extensions) THEN Returns(0)
  ELSE IF stat[i] = "file" THEN Returns(i)
  ELSE ProbeFrom(stat, i + 1)

\* variant of resolveImportPath: no look into node_modules
resolveImportPathNoExternal(importSource, access, stat) == ProbeFrom(stat, 1)

\* variant of resolveImportPath: a specifier that starts with neither a dot
\* nor a slash is never looked for next to the importing file
resolveImportPathBareDropped(importSource, access, stat) ==
  IF importSource = "bare"
  THEN Returns(0)
  ELSE ProbeFrom(stat, 1)

\* resolveImportPath(importSource, fromFile).  importSource is the kind of
\* the specifier, access is what fs.access finds at node_modules/<name>
\* ("ok", or "rejects"), stat is what the probes find.
resolveImportPath(importSource, access, stat) ==
  IF importSource = "bare" /\ access = "ok"
  THEN Returns(0)
  ELSE ProbeFrom(stat, 1)

\* the position in extensions of the suffix that completes './x' to the
\* path of the file x
SuffixOf(ext) == IF ext = ".js" THEN 2 ELSE IF ext = ".py" THEN 6 ELSE 1

\* what the probes for a specifier naming the file `to` find on disk: the
\* file itself at the suffix that completes its name, nothing elsewhere
StatAt(disk, to) ==
  [i \in 1..Len(extensions) |->
     IF to \in DOMAIN disk /\ i = SuffixOf(disk[to].ext) THEN "file"
     ELSE "none"]

\* loadFile(filePath): skipped when shouldSkipFile says so or the read
\* fails, otherwise the text
loadFile(file) ==
  [skipped |-> file.load = "skipped",
   content |-> IF file.load = "content" THEN file.content ELSE <<>>,
   empty   |-> file.load # "content"]

\* the two scans of extractImportsWithRegex: every import ... '<module>' in
\* the text (also inside a comment or a string), then every require call
extractImportsWithRegex(content) ==
  LET IsImport(st)  == st.form \in {"import", "quoted", "indented"}
      IsRequire(st) == st.form = "require"
  IN SelectSeq(content, IsImport) \o SelectSeq(content, IsRequire)

\* the two scans of extractPythonImportsWithRegex, both anchored at the
\* start of a line: every import x, then every from x import
extractPythonImportsWithRegex(content) ==
  LET IsImport(st) == st.form \in {"import", "quoted"}
      IsFrom(st)   == st.form = "from"
  IN SelectSeq(content, IsImport) \o SelectSeq(content, IsFrom)

\* variant of extractImportsFromJS: the catch returns []
extractImportsFromJSNoFallback(file) ==
  LET InTree(st) == st.form \in {"import", "require", "indented"}
  IN IF file.syntax = "ok"
     THEN Returns(SelectSeq(file.content, InTree))
     ELSE Returns(<<>>)

\* variant of extractImportsFromJS: no catch, the parser's error leaves
\* the function
extractImportsFromJSRethrow(file) ==
  LET InTree(st) == st.form \in {"import", "require", "indented"}
  IN IF file.syntax = "ok"
     THEN Returns(SelectSeq(file.content, InTree))
     ELSE Throws

\* extractImportsFromJS(content, filePath): the import declarations and
\* require calls of the syntax tree in document order; when the parser
\* throws, the catch returns the regex scans
extractImportsFromJS(file) ==
  LET InTree(st) == st.form \in {"import", "require", "indented"}
  IN IF file.syntax = "ok"
     THEN Returns(SelectSeq(file.content, InTree))
     ELSE Returns(extractImportsWithRegex(file.content))

\* extractImportsFromPython(filePath): awaits the python3 child, no timeout
\* given; its JSON list lists the tree breadth first, module level first.
\* When the child fails the catch reads the file again, and a failure of
\* that read leaves the function.  (The script is handed over with its
\* newlines replaced by spaces, which python3 rejects as a syntax error:
\* with a real interpreter the child always fails.)
extractImportsFromPython(file) ==
  LET TopLevel(st) == st.form \in {"import", "from"}
      Nested(st)   == st.form = "indented"
  IN CASE file.python = "hangs"   -> Pending
       [] file.python = "answers" ->
            Returns(SelectSeq(file.content, TopLevel)
                      \o SelectSeq(file.content, Nested))
       [] OTHER ->
            IF file.reread = "ok"
            THEN Returns(extractPythonImportsWithRegex(file.content))
            ELSE Throws

\* variant of ResolvedPath: a file that cannot be loaded is not returned
ResolvedPathReadable(disk, st) ==
  LET r == resolveImportPath(st.source,
                             IF st.installed THEN "ok" ELSE "rejects",
                             StatAt(disk, st.to))
  IN IF r.status = "throws" THEN "throws"
     ELSE IF r.value = 0 THEN NULL
     ELSE IF disk[st.to].load = "skipped" THEN NULL
     ELSE st.to

\* the resolvedPath of one import: NULL, or the path of the file found
ResolvedPath(disk, st) ==
  LET r == resolveImportPath(st.source,
                             IF st.installed THEN "ok" ELSE "rejects",
                             StatAt(disk, st.to))
  IN IF r.status = "throws" THEN "throws"
     ELSE IF r.value = 0 THEN NULL
     ELSE st.to

\* variant of ResolveAll: an import that does not resolve ends the loop and
\* nothing is kept
RECURSIVE ResolveAllOrNothing(_, _)
ResolveAllOrNothing(disk, sts) ==
  IF sts = <<>> THEN <<>>
  ELSE LET rp   == ResolvedPath(disk, Head(sts))
           rest == ResolveAllOrNothing(disk, Tail(sts))
       IN IF rp = NULL \/ (Tail(sts) # <<>> /\ rest = <<>>) THEN <<>>
          ELSE <<rp>> \o rest

\* the loop over imports in extractDependencies: the truthy resolved paths
RECURSIVE ResolveAll(_, _)
ResolveAll(disk, sts) ==
  IF sts = <<>> THEN <<>>
  ELSE LET rp == ResolvedPath(disk, Head(sts))
       IN (IF rp = NULL THEN <<>> ELSE <<rp>>) \o ResolveAll(disk, Tail(sts))

\* variant of ImportsOf: whatever is not Python is parsed as JavaScript
ImportsOfAnyExtension(file) ==
  IF file.ext = ".py" THEN extractImportsFromPython(file)
  ELSE extractImportsFromJS(file)

\* the extraction chosen by the extension of the file
ImportsOf(file) ==
  IF file.ext = ".js" THEN extractImportsFromJS(file)
  ELSE IF file.ext = ".py" THEN extractImportsFromPython(file)
  ELSE Returns(<<>>)

\* variant of extractDependenciesOf: no try around the body
extractDependenciesNoCatch(disk, filePath) ==
  LET file == loadFile(disk[filePath])
      imps == ImportsOf(disk[filePath])
      deps == ResolveAll(disk, imps.value)
  IN IF file.skipped \/ file.empty THEN Returns(<<>>)
     ELSE IF imps.status # "returns" THEN imps
     ELSE IF "throws" \in Range(deps) THEN Throws
     ELSE Returns(deps)

\* extractDependencies(filePath), the body: [] for a skipped or empty file
\* and for an extension that is neither JavaScript nor Python; whatever is
\* thrown inside is caught and [] returned
extractDependenciesOf(disk, filePath) ==
  LET file == loadFile(disk[filePath])
      imps == ImportsOf(disk[filePath])
      deps == ResolveAll(disk, imps.value)
  IN IF file.skipped \/ file.empty THEN Returns(<<>>)
     ELSE IF imps.status = "pending" THEN Pending
     ELSE IF imps.status = "throws" THEN Returns(<<>>)
     ELSE IF "throws" \in Range(deps) THEN Returns(<<>>)
     ELSE Returns(deps)

\* what fs.stat can find at a candidate path
Statuses == {"file", "dir", "none", "error"}

\* the answers of the file system to the probes of one call: at most
\* MaxPresent candidates are there at all
StatVectors ==
  {st \in [1..Len(extensions) -> Statuses] :
     Cardinality({i \in 1..Len(extensions) : st[i] # "none"}) <= MaxPresent}

\* no call of resolveImportPath is looked at
NotResolving ==
  [importSource |-> "relative", access |-> "rejects",
   stat |-> [i \in 1..Len(extensions) |-> "none"],
   outcome |-> Pending]

\* there is no second call
NoCall ==
  [filePaths |-> <<>>, dependencyMap |-> <<>>, processed |-> {},
   stack |-> <<>>, rootIdx |-> 1, pc |-> "none", result |-> <<>>,
   met |-> FALSE]

\* an option or a setting that may be absent: <<>> for undefined, <<v>>
\* for the value v
Maybe(S) == {<<>>} \cup {<<v>> : v \in S}

\* the limits and the default of dependency_depth in configSchema
DepthMin == 1

DepthMax == 5

DepthDefault == 2

\* the largest commit count the command line accepts
MaxCommits == 5

\* the depths a configuration file, or a command line, can ask for
DepthInputs == (DepthMin - 1)..(DepthMax + 1)

\* mergeConfigs(global, project), the dependency_depth of the result: the
\* project's when it has one
mergeConfigs(global, project) == IF project # <<>> THEN project ELSE global

\* variant of dependency_depth: the schema sets no upper limit
dependency_depthNoMax(v) ==
  IF v = <<>> THEN Returns(DepthDefault)
  ELSE IF v[1] >= DepthMin THEN Returns(v[1])
  ELSE [status |-> "throws", value |-> 0]

\* configSchema.validate on dependency_depth: an integer from 1 to 5, 2
\* when the key is absent; anything else is reported and loadConfig throws
dependency_depth(v) ==
  IF v = <<>> THEN Returns(DepthDefault)
  ELSE IF v[1] \in DepthMin..DepthMax THEN Returns(v[1])
  ELSE [status |-> "throws", value |-> 0]

\* loadConfig(): the validated value of the merged files
loadConfig(global, project) == dependency_depth(mergeConfigs(global, project))

\* the options object the default action of the program hands to
\* fastScanCommand: commitCount and branchName; it sets neither deep nor
\* depth
scanOptions(argv) ==
  [commitCount |-> argv.commits, branchName |-> argv.branch,
   deep |-> FALSE, depth |-> <<>>]

\* fastScanCommand, "Determine dependency depth": Infinity for deep, else
\* the depth option, else config.dependency_depth || 2
maxDepthOf(deep, depth, configDepth) ==
  IF deep THEN Infinity
  ELSE IF depth # <<>> THEN depth[1]
  ELSE IF configDepth = 0 THEN DepthDefault
  ELSE configDepth

\* no command is looked at
NoScan ==
  [argv |-> [deep |-> FALSE, clean |-> FALSE, commits |-> <<>>,
             branch |-> FALSE, depth |-> <<>>],
   global |-> <<>>, project |-> <<>>, providers |-> TRUE,
   stage |-> "none", options |-> scanOptions([commits |-> <<>>,
                                              branch |-> FALSE]),
   config |-> 0]

\* the size in bytes above which a file is not loaded
MAX_FILE_SIZE == 10485760

\* What the disk holds at one path: stat is whether fs.stat succeeds and
\* size what it reports, binaryExt whether the extension is one of
\* BINARY_EXTENSIONS, head what the first 512 bytes are like ("nul" with a
\* null byte among them, "rejects" when open or read fails), read whether
\* fs.readFile succeeds.
Entries ==
  {e \in [stat : {"ok", "rejects"},
          size : {0, MAX_FILE_SIZE, MAX_FILE_SIZE + 1},
          binaryExt : BOOLEAN,
          head : {"text", "nul", "rejects"},
          read : {"ok", "rejects"}] :
     e.stat = "rejects" => e.size = 0}

isBinaryByExtension(e) == e.binaryExt

\* isBinaryByContent(filePath): a failure to open or read counts as text
isBinaryByContent(e) == e.head = "nul"

\* shouldSkipFile(filePath): the reason to skip the file, "none" to load it
shouldSkipFile(e) ==
  IF e.stat = "rejects" THEN "access"
  ELSE IF e.size > MAX_FILE_SIZE THEN "size"
  ELSE IF isBinaryByExtension(e) THEN "extension"
  ELSE IF isBinaryByContent(e) THEN "content"
  ELSE "none"

\* the result object of loadFile for a file that is skipped, and for one
\* that is loaded; the content of an empty file is the empty string
Skipped(filePath, reason) ==
  [path |-> filePath, content |-> NULL, skipped |-> TRUE, reason |-> reason,
   size |-> <<>>]

Loaded(filePath, e) ==
  [path |-> filePath, content |-> IF e.size = 0 THEN "" ELSE "text",
   skipped |-> FALSE, reason |-> "none", size |-> <<e.size>>]

\* variant of loadFileFrom: no try around fs.readFile
loadFileFromNoCatch(filePath, e) ==
  IF shouldSkipFile(e) # "none"
  THEN Returns(Skipped(filePath, shouldSkipFile(e)))
  ELSE IF e.read = "ok" THEN Returns(Loaded(filePath, e))
  ELSE [status |-> "throws", value |-> Skipped(filePath, "read")]

\* loadFile(filePath), with every check it makes, on the entry e the disk
\* holds at filePath
loadFileFrom(filePath, e) ==
  IF shouldSkipFile(e) # "none"
  THEN Returns(Skipped(filePath, shouldSkipFile(e)))
  ELSE IF e.read = "ok" THEN Returns(Loaded(filePath, e))
  ELSE Returns(Skipped(filePath, "read"))

\* loadFiles(filePaths), once every loadFile has settled: the results in
\* the order of the paths, split by skipped, and the three counts
loadFiles(results) ==
  LET IsLoaded(r)  == ~r.skipped
      IsSkipped(r) == r.skipped
      loaded  == SelectSeq(results, IsLoaded)
      skipped == SelectSeq(results, IsSkipped)
  IN [files |-> loaded, skipped |-> skipped, total |-> Len(results),
      loadedCount |-> Len(loaded), skippedCount |-> Len(skipped)]

\* no call of loadFiles is looked at
NoLoad == [inputs |-> <<>>, settled |-> <<>>, outcome |-> Pending]

\* an import statement import ... from './t'
Plain(t) == [form |-> "import", source |-> "relative", installed |-> FALSE,
             to |-> t]

\* a JavaScript file that loads and parses
Sound == [ext |-> ".js", load |-> "content", syntax |-> "ok",
          python |-> "fails", reread |-> "ok"]

\* what a file can be like
Conditions ==
  {Sound,
   [Sound EXCEPT !.syntax = "bad"],
   [Sound EXCEPT !.load = "skipped"],
   [Sound EXCEPT !.load = "empty"],
   [Sound EXCEPT !.ext = ".md"],
   [Sound EXCEPT !.ext = ".py", !.python = "answers"],
   [Sound EXCEPT !.ext = ".py"],
   [Sound EXCEPT !.ext = ".py", !.reread = "fails"],
   [Sound EXCEPT !.ext = ".py", !.python = "hangs"]}

\* what an import statement can be like, other than Plain
Kinds == {"require", "from", "quoted", "indented",
          "package", "bare", "gone"}

\* the statement st made of the kind k
OfKind(st, k) ==
  CASE k \in {"require", "from", "quoted", "indented"} ->
         [st EXCEPT !.form = k]
    [] k = "package" -> [st EXCEPT !.source = "bare", !.installed = TRUE]
    [] k = "bare"    -> [st EXCEPT !.source = "bare"]
    [] k = "gone"    -> [st EXCEPT !.to = "gone"]
    [] OTHER         -> st

\* a file of condition cond whose text imports the targets, each by a
\* Plain statement
FileOf(cond, targets) ==
  [ext |-> cond.ext, load |-> cond.load, syntax |-> cond.syntax,
   python |-> cond.python, reread |-> cond.reread,
   content |-> [i \in 1..Len(targets) |-> Plain(targets[i])]]

\* the project of sound files whose import graph is g
HealthyDisk(g) == [p \in Paths |-> FileOf(Sound, g[p])]

\* One departure from HealthyDisk: with i = 0 the file p is of condition
\* cond, otherwise the i-th statement of p is of kind k.
Oddities(g, seen) ==
  {[p |-> p, i |-> 0, cond |-> c, kind |-> "plain"] :
     p \in seen, c \in Conditions}
  \cup
  UNION {{[p |-> p, i |-> i, cond |-> Sound, kind |-> k] :
            i \in 1..Len(g[p]), k \in Kinds} : p \in seen}

\* the place of an oddity: files in the order of their names, the file
\* itself before its statements
SiteNo(o) ==
  (CASE o.p = "a" -> 1 [] o.p = "b" -> 2 [] o.p = "c" -> 3 [] OTHER -> 4)
     * (MaxImports + 1) + o.i

\* the oddities are listed in the order of their places
InSiteOrder(os) ==
  \A k \in 1..(Len(os) - 1) : SiteNo(os[k]) <= SiteNo(os[k + 1])

WithOddity(disk, o) ==
  IF o.i = 0
  THEN [disk EXCEPT ![o.p] = [@ EXCEPT !.ext = o.cond.ext,
                                       !.load = o.cond.load,
                                       !.syntax = o.cond.syntax,
                                       !.python = o.cond.python,
                                       !.reread = o.cond.reread]]
  ELSE [disk EXCEPT ![o.p].content[o.i] = OfKind(@, o.kind)]

RECURSIVE WithOddities(_, _, _)
WithOddities(disk, os, n) ==
  IF n = 0 THEN disk
  ELSE WithOddity(WithOddities(disk, os, n - 1), os[n])

\* keys of the Map in insertion order
Keys(dm) == [i \in 1..Len(dm) |-> dm[i].resolvedPath]

\* extractDependencies(filePath): the resolved imports of the file
extractDependencies(fs, filePath) == fs[filePath]

\* the closure environment and control state of one getDependencies call
Ctx == [fs |-> imports, filePaths |-> filePaths, maxDepth |-> maxDepth,
        dependencyMap |-> dependencyMap, processed |-> processed,
        stack |-> stack, rootIdx |-> rootIdx]

\* the start of a call: an empty Map, an empty Set, the loop at the first root
NewCall(fs, roots, depth) ==
  [fs |-> fs, filePaths |-> roots, maxDepth |-> depth,
   dependencyMap |-> <<>>, processed |-> {},
   stack |-> <<>>, rootIdx |-> 1]

\* variant of processFile: the depth-limited recursion, depth test first
processFileDepthFirst(filePath, c) ==
  IF Len(c.stack) >= c.maxDepth
  THEN c
  ELSE IF filePath \in c.processed
       THEN c
       ELSE [c EXCEPT !.processed = @ \cup {filePath},
                      !.stack = Append(@, [filePath |-> filePath,
                                           deps |-> extractDependencies(c.fs, filePath),
                                           i |-> 1])]

\* variant of processFile: the depth-limited recursion, depth test after the
\* path is marked processed
processFileMarkThenLimit(filePath, c) ==
  IF filePath \in c.processed
  THEN c
  ELSE IF Len(c.stack) >= c.maxDepth
       THEN [c EXCEPT !.processed = @ \cup {filePath}]
       ELSE [c EXCEPT !.processed = @ \cup {filePath},
                      !.stack = Append(@, [filePath |-> filePath,
                                           deps |-> extractDependencies(c.fs, filePath),
                                           i |-> 1])]

\* variant of processFile: no processed.has test
processFileNoVisitedCheck(filePath, c) ==
  [c EXCEPT !.processed = @ \cup {filePath},
            !.stack = Append(@, [filePath |-> filePath,
                                 deps |-> extractDependencies(c.fs, filePath),
                                 i |-> 1])]

\* processFile(filePath) up to its await: return at once when the path was
\* processed, otherwise mark it and suspend on its dependencies
processFile(filePath, c) ==
  IF filePath \in c.processed
  THEN c
  ELSE [c EXCEPT !.processed = @ \cup {filePath},
                 !.stack = Append(@, [filePath |-> filePath,
                                      deps |-> extractDependencies(c.fs, filePath),
                                      i |-> 1])]

\* one iteration of the for loop over filePaths
RootStepOf(c) ==
  processFile(c.filePaths[c.rootIdx], [c EXCEPT !.rootIdx = @ + 1])

\* variant of DepStepOf: the Map is an array, pushed to without a has test
DepStepNoMapCheck(c) ==
  LET n    == Len(c.stack)
      top  == c.stack[n]
      dep  == top.deps[top.i]
      next == [c EXCEPT !.stack[n].i = @ + 1]
  IN processFile(dep,
       [next EXCEPT !.dependencyMap =
          Append(@, [resolvedPath |-> dep, foundBy |-> top.filePath,
                     level |-> n])])

\* variant of DepStepOf: direct dependencies only, no recursive call
DepStepDirectOnly(c) ==
  LET n    == Len(c.stack)
      top  == c.stack[n]
      dep  == top.deps[top.i]
      next == [c EXCEPT !.stack[n].i = @ + 1]
  IN IF dep \notin Range(Keys(c.dependencyMap))
     THEN [next EXCEPT !.dependencyMap =
             Append(@, [resolvedPath |-> dep, foundBy |-> top.filePath,
                        level |-> n])]
     ELSE next

\* variant of DepStepOf: every dependency is entered again, whether or not
\* the Map or the Set holds its path
DepStepNoVisitedCheck(c) ==
  LET n    == Len(c.stack)
      top  == c.stack[n]
      dep  == top.deps[top.i]
      next == [c EXCEPT !.stack[n].i = @ + 1]
      dm   == IF dep \notin Range(Keys(c.dependencyMap))
              THEN Append(c.dependencyMap,
                          [resolvedPath |-> dep, foundBy |-> top.filePath,
                           level |-> n])
              ELSE c.dependencyMap
  IN [next EXCEPT !.dependencyMap = dm,
                  !.processed = @ \cup {dep},
                  !.stack = Append(@, [filePath |-> dep,
                                       deps |-> extractDependencies(c.fs, dep),
                                       i |-> 1])]

\* variant of DepStepOf: dependencyMap.set without the has test, so a path
\* found again gets the entry of its latest discovery
DepStepSetAlways(c) ==
  LET n     == Len(c.stack)
      top   == c.stack[n]
      dep   == top.deps[top.i]
      next  == [c EXCEPT !.stack[n].i = @ + 1]
      entry == [resolvedPath |-> dep, foundBy |-> top.filePath, level |-> n]
  IN IF dep \notin Range(Keys(c.dependencyMap))
     THEN processFile(dep, [next EXCEPT !.dependencyMap = Append(@, entry)])
     ELSE processFile(dep,
            [next EXCEPT !.dependencyMap =
               [i \in 1..Len(@) |->
                  IF @[i].resolvedPath = dep THEN entry ELSE @[i]]])

\* one iteration of the for loop over deps in the innermost activation
DepStepOf(c) ==
  LET n    == Len(c.stack)
      top  == c.stack[n]
      dep  == top.deps[top.i]
      next == [c EXCEPT !.stack[n].i = @ + 1]
  IN IF dep \notin Range(Keys(c.dependencyMap))
     THEN processFile(dep,
            [next EXCEPT !.dependencyMap =
               Append(@, [resolvedPath |-> dep, foundBy |-> top.filePath,
                          level |-> n])])
     ELSE next

\* the innermost activation has run out of deps and returns
ReturnOf(c) == [c EXCEPT !.stack = SubSeq(@, 1, Len(@) - 1)]

\* a whole call, run to its return: the loops above, in program order
RECURSIVE RunOf(_)
RunOf(c) ==
  IF c.stack # <<>>
  THEN LET top == c.stack[Len(c.stack)]
       IN IF top.i <= Len(top.deps) THEN RunOf(DepStepOf(c))
                                    ELSE RunOf(ReturnOf(c))
  ELSE IF c.rootIdx <= Len(c.filePaths) THEN RunOf(RootStepOf(c))
       ELSE c

\* getDependencies(filePaths, maxDepth): the keys of the Map at the return
getDependencies(fs, roots, depth) ==
  Keys(RunOf(NewCall(fs, roots, depth)).dependencyMap)

\* the closure environment and control state of the second call
OtherCtx ==
  [fs |-> imports, filePaths |-> other.filePaths, maxDepth |-> maxDepth,
   dependencyMap |-> other.dependencyMap, processed |-> other.processed,
   stack |-> other.stack, rootIdx |-> other.rootIdx]

\* variant of CallView: processed is one Set of the module, which every
\* call adds to
CallViewShared(own, peer) == [own EXCEPT !.processed = @ \cup peer.processed]

\* what a call works on while another is underway: the Map and the Set it
\* made at its start, nothing of its peer
CallView(own, peer) == own

\* the first call and the second, each as it sees its state
Mine == CallView(Ctx, OtherCtx)

Theirs == CallView(OtherCtx, Ctx)

\* the loops of getDependencies have run out
Returned(c) == c.stack = <<>> /\ c.rootIdx > Len(c.filePaths)

\* the next step of a call that has not returned, as in RunOf
StepOf(c) ==
  IF c.stack # <<>>
  THEN LET top == c.stack[Len(c.stack)]
       IN IF top.i <= Len(top.deps) THEN DepStepOf(c) ELSE ReturnOf(c)
  ELSE RootStepOf(c)

Install(c) ==
  /\ dependencyMap' = c.dependencyMap
  /\ processed' = c.processed
  /\ stack' = c.stack
  /\ rootIdx' = c.rootIdx

\* the file whose extractDependencies the step from c to d awaits, NULL when
\* the step enters no file
Awaited(c, d) ==
  IF Len(d.stack) > Len(c.stack) THEN d.stack[Len(d.stack)].filePath
  ELSE NULL

\* how the await of the step from c to d ends
Outcome(c, d) ==
  IF Awaited(c, d) = NULL THEN "returns"
  ELSE settles[Awaited(c, d)]

\* A step from c to d resumes once the promise of extractDependencies is
\* settled; a rejection leaves processFile and getDependencies, neither
\* of which catches.
Settle(c, d) ==
  /\ Outcome(c, d) # "pending"
  /\ Install(d)
  /\ pc' = IF Outcome(c, d) = "throws" THEN "thrown" ELSE pc

StartOfCall(size) ==
  /\ filePaths \in RootLists
  /\ \E n \in Shapes(size - Len(filePaths)) :
       \E ia \in [1..n["a"] -> Paths], ib \in [1..n["b"] -> Paths],
          ic \in [1..n["c"] -> Paths], id \in [1..n["d"] -> Paths] :
          /\ Project(filePaths, [a |-> ia, b |-> ib, c |-> ic, d |-> id])
          /\ imports = [a |-> ia, b |-> ib, c |-> ic, d |-> id]
  /\ realpath \in Realpaths(imports, filePaths)
  /\ maxDepth \in Depths
  /\ files = HealthyDisk(imports)
  /\ settles = [p \in Paths |-> extractDependenciesOf(files, p).status]
  /\ dependencyMap = <<>>
  /\ processed = {}
  /\ stack = <<>>
  /\ rootIdx = 1
  /\ pc = "run"
  /\ result = <<>>
  /\ resolving = NotResolving
  /\ other = NoCall
  /\ scan = NoScan
  /\ loading = NoLoad

Init == StartOfCall(MaxSize)

InitLive == StartOfCall(LiveMaxSize)

\* The start of a call on a project where up to MaxOdd files or statements
\* depart from the sound JavaScript file with plain relative imports; what
\* extractDependencies makes of each file is computed from the file.
IoInit ==
  /\ filePaths \in RootLists
  /\ \E n \in Shapes(IoMaxSize - Len(filePaths)) :
       \E ia \in [1..n["a"] -> Paths], ib \in [1..n["b"] -> Paths],
          ic \in [1..n["c"] -> Paths], id \in [1..n["d"] -> Paths] :
          LET g    == [a |-> ia, b |-> ib, c |-> ic, d |-> id]
              seen == Range(filePaths) \cup Reach(g, Range(filePaths), Infinity)
          IN /\ Project(filePaths, g)
             /\ \E os \in [1..MaxOdd -> Oddities(g, seen)] :
                  /\ InSiteOrder(os)
                  /\ files = WithOddities(HealthyDisk(g), os, MaxOdd)
  /\ imports = [p \in Paths |-> extractDependenciesOf(files, p).value]
  /\ settles = [p \in Paths |-> extractDependenciesOf(files, p).status]
  /\ realpath = [p \in Paths |-> p]
  /\ maxDepth = Infinity
  /\ dependencyMap = <<>>
  /\ processed = {}
  /\ stack = <<>>
  /\ rootIdx = 1
  /\ pc = "run"
  /\ result = <<>>
  /\ resolving = NotResolving
  /\ other = NoCall
  /\ scan = NoScan
  /\ loading = NoLoad

RootStep ==
  /\ pc = "run"
  /\ stack = <<>>
  /\ rootIdx <= Len(filePaths)
  /\ Settle(Mine, RootStepOf(Mine))
  /\ UNCHANGED <<input, aside, result>>

DepStep ==
  /\ pc = "run"
  /\ stack # <<>>
  /\ stack[Len(stack)].i <= Len(stack[Len(stack)].deps)
  /\ Len(DepStepOf(Mine).stack) <= MaxStack
  /\ Settle(Mine, DepStepOf(Mine))
  /\ UNCHANGED <<input, aside, result>>

Return ==
  /\ pc = "run"
  /\ stack # <<>>
  /\ stack[Len(stack)].i > Len(stack[Len(stack)].deps)
  /\ Install(ReturnOf(Mine))
  /\ UNCHANGED <<input, aside, pc, result>>

Finish ==
  /\ pc = "run"
  /\ stack = <<>>
  /\ rootIdx > Len(filePaths)
  /\ result' = Keys(dependencyMap)
  /\ pc' = "done"
  /\ UNCHANGED <<input, aside, dependencyMap, processed, stack, rootIdx>>

Next == RootStep \/ DepStep \/ Return \/ Finish

Spec == Init /\ [][Next]_vars

\* the event loop resumes a pending call: each step is eventually taken
FairSpec == InitLive /\ [][Next]_vars /\ WF_vars(Next)

IoSpec == IoInit /\ [][Next]_vars

\* Two calls on one project of sound files, the second with roots of its
\* own, both at their start.
PairInit ==
  /\ filePaths \in RootLists
  /\ \E n \in Shapes(PairMaxSize - Len(filePaths)) :
       \E ia \in [1..n["a"] -> Paths], ib \in [1..n["b"] -> Paths],
          ic \in [1..n["c"] -> Paths], id \in [1..n["d"] -> Paths] :
          /\ Project(filePaths, [a |-> ia, b |-> ib, c |-> ic, d |-> id])
          /\ imports = [a |-> ia, b |-> ib, c |-> ic, d |-> id]
  /\ \E r \in SeqsUpTo(Range(filePaths) \cup Reach(imports, Range(filePaths), Infinity),
                       MaxRoots) \ {<<>>} :
       other = [NoCall EXCEPT !.filePaths = r, !.pc = "run"]
  /\ files = HealthyDisk(imports)
  /\ settles = [p \in Paths |-> extractDependenciesOf(files, p).status]
  /\ realpath = [p \in Paths |-> p]
  /\ maxDepth = Infinity
  /\ dependencyMap = <<>>
  /\ processed = {}
  /\ stack = <<>>
  /\ rootIdx = 1
  /\ pc = "run"
  /\ result = <<>>
  /\ resolving = NotResolving
  /\ scan = NoScan
  /\ loading = NoLoad

\* One step of the second call, taken between two steps of the first: an
\* iteration of one of its loops, a return of processFile, or its own
\* return.  met records that it ran while the first call was underway.
OtherStep ==
  /\ other.pc = "run"
  /\ other' =
       IF Returned(Theirs)
       THEN [other EXCEPT !.pc = "done",
                          !.result = Keys(other.dependencyMap)]
       ELSE LET d == StepOf(Theirs)
            IN [other EXCEPT !.dependencyMap = d.dependencyMap,
                             !.processed = d.processed,
                             !.stack = d.stack,
                             !.rootIdx = d.rootIdx,
                             !.met = @ \/ (pc = "run" /\ processed # {})]
  /\ UNCHANGED <<input, resolving, dependencyMap, processed, stack, rootIdx,
                 pc, result>>

PairNext == Next \/ OtherStep

PairSpec == PairInit /\ [][PairNext]_vars

\* No getDependencies call: one call of resolveImportPath, for a specifier
\* of each kind and each answer of the file system.
ResolverInit ==
  /\ \E k \in {"relative", "bare", "absolute"}, a \in {"ok", "rejects"},
        st \in StatVectors :
        resolving = [importSource |-> k, access |-> a, stat |-> st,
                     outcome |-> Pending]
  /\ imports = [p \in Paths |-> <<>>]
  /\ files = HealthyDisk(imports)
  /\ settles = [p \in Paths |-> "returns"]
  /\ realpath = [p \in Paths |-> p]
  /\ filePaths = <<>>
  /\ maxDepth = Infinity
  /\ dependencyMap = <<>>
  /\ processed = {}
  /\ stack = <<>>
  /\ rootIdx = 1
  /\ pc = "none"
  /\ result = <<>>
  /\ other = NoCall
  /\ scan = NoScan
  /\ loading = NoLoad

\* the call of resolveImportPath runs to its return
Resolve ==
  /\ resolving.outcome.status = "pending"
  /\ resolving' = [resolving EXCEPT !.outcome =
                     resolveImportPath(resolving.importSource,
                                       resolving.access, resolving.stat)]
  /\ UNCHANGED <<input, other, dependencyMap, processed, stack, rootIdx,
                 pc, result>>

ResolverNext == Resolve

ResolverSpec == ResolverInit /\ [][ResolverNext]_vars

\* as FairSpec: a step that can be taken is eventually taken
FairIoSpec == IoInit /\ [][Next]_vars /\ WF_vars(Next)

Roots == Range(filePaths)

\* a importing b then c, b importing d
DepthExample ==
  imports = [a |-> <<"b", "c">>, b |-> <<"d">>, c |-> <<>>, d |-> <<>>]

\* ------------------------------------------------------------------ claims

\* C1: with a finite maxDepth d, every returned path is reachable from a
\* root by a chain of at most d resolved imports; for a importing b and c,
\* and b importing d, the call ({a}, 1) returns exactly {b, c}.
C1_DepthBoundSound ==
  (pc = "done" /\ maxDepth # Infinity) =>
     /\ Range(result) \subseteq Reach(imports, Roots, maxDepth)
     /\ (DepthExample /\ filePaths = <<"a">> /\ maxDepth = 1) =>
           Range(result) = {"b", "c"}

\* C2: every non-root path whose shortest distance from a root is at most
\* maxDepth is returned, also when the traversal reached it first along a
\* longer chain.
C2_DepthBoundComplete ==
  pc = "done" =>
     (Reach(imports, Roots, maxDepth) \ Roots) \subseteq Range(result)

\* C2 witness: a returned non-root path within maxDepth hops that the
\* traversal discovered at a level beyond maxDepth
C2_Witness ==
  /\ pc = "done"
  /\ maxDepth # Infinity
  /\ \E i \in 1..Len(dependencyMap) :
       LET e == dependencyMap[i]
       IN /\ e.resolvedPath \notin Roots
          /\ e.resolvedPath \in Reach(imports, Roots, maxDepth)
          /\ e.level > maxDepth
          /\ e.resolvedPath \in Range(result)

\* C3: for the same roots and file system, the paths returned for maxDepth
\* are among those returned for every larger depth.
C3_MonotoneInDepth ==
  pc = "done" =>
     \A d2 \in Depths :
        maxDepth <= d2 =>
           Range(result) \subseteq Range(getDependencies(imports, filePaths, d2))

\* C3 witness: a finished call with a finite depth whose graph has a path
\* reachable by a short and by a longer chain, and a larger depth to compare
C3_Witness ==
  /\ pc = "done"
  /\ maxDepth < MaxDepthArg
  /\ \E i \in 1..Len(dependencyMap) :
       LET e == dependencyMap[i]
       IN /\ e.resolvedPath \in Reach(imports, Roots, 1)
          /\ e.level > 1
  /\ Range(getDependencies(imports, filePaths, MaxDepthArg)) = Range(result)

\* C4: the returned list never holds two paths that name the same file once
\* symlinks are resolved.
C4_NoDuplicateCanonical ==
  pc = "done" =>
     \A i, j \in 1..Len(result) :
        i # j => realpath[result[i]] # realpath[result[j]]

\* C5: no root is in the returned list.
C5_RootsExcluded ==
  pc = "done" => Range(result) \cap Roots = {}

\* C6: a root is in the returned list only if it is reachable as a
\* dependency of a different root; a root reachable only from itself is not.
C6_RootOnlyViaOtherRoot ==
  pc = "done" =>
     \A r \in Roots \cap Range(result) :
        r \in Reach(imports, Roots \ {r}, Infinity)

\* C7: when A imports B and B imports A, the call ([A], unbounded) returns
\* exactly {B}.
C7_CycleReturnsOther ==
  (pc = "done" /\ maxDepth = Infinity /\ Len(filePaths) = 1) =>
     \A B \in Paths \ {filePaths[1]} :
        (imports[filePaths[1]] = <<B>> /\ imports[B] = <<filePaths[1]>>) =>
           Range(result) = {B}

\* A imports B and C (in either order), B and C import D, D imports nothing
Diamond(A, B, C, D) ==
  /\ Cardinality({A, B, C, D}) = 4
  /\ imports[A] = <<B, C>>
  /\ imports[B] = <<D>>
  /\ imports[C] = <<D>>
  /\ imports[D] = <<>>

\* C8: on a diamond the call ([A], unbounded) returns exactly {B, C, D}, D
\* once, whichever of B and C the root imports first.
C8_DiamondDedup ==
  (pc = "done" /\ maxDepth = Infinity /\ Len(filePaths) = 1) =>
     \A B, C, D \in Paths :
        Diamond(filePaths[1], B, C, D) =>
           /\ Range(result) = {B, C, D}
           /\ Len(result) = 3

\* C8 witness: the call on a diamond has returned with D in the list, D
\* having been discovered through the root's first import
C8_Witness ==
  /\ pc = "done"
  /\ maxDepth = Infinity
  /\ Len(filePaths) = 1
  /\ \E B, C, D \in Paths :
       /\ Diamond(filePaths[1], B, C, D)
       /\ \E i \in 1..Len(dependencyMap) :
            /\ dependencyMap[i].resolvedPath = D
            /\ dependencyMap[i].foundBy = B
       /\ D \in Range(result)

\* the level at which the traversal discovered the path at position i
LevelAt(i) == dependencyMap[i].level

C10_Terminates == <>(pc = "done")

\* C10 witness: a call has returned after processing a path that lies on an
\* import cycle (a self-import included)
C10_Witness ==
  /\ pc = "done"
  /\ \E p \in processed : p \in Reach(imports, {p}, Infinity)

\* the files a call reads: the roots and what they transitively import
Read == Roots \cup Reach(imports, Roots, Infinity)

\* a file the call reads is a Python file whose python3 child never exits
HangingParser ==
  \E p \in Read :
     /\ files[p].ext = ".py"
     /\ files[p].load = "content"
     /\ files[p].python = "hangs"

\* C11: also when the python3 child of a file never exits, the extraction
\* of that file completes and the call eventually returns.
C11_NeverHangs == HangingParser => <>(pc = "done")

\* the files the statements of p name, whether or not they resolve
Named(p) ==
  LET OnDisk(st) == st.to \in Paths
  IN [i \in 1..Len(SelectSeq(files[p].content, OnDisk)) |->
        SelectSeq(files[p].content, OnDisk)[i].to]

\* something went wrong inside the extraction of p: the file did not load,
\* the parser threw, the python3 child failed or the file could not be read
\* again, or an import did not resolve
Failed(p) ==
  \/ files[p].load # "content"
  \/ files[p].ext = ".js" /\ files[p].syntax = "bad"
  \/ files[p].ext = ".py" /\ files[p].python = "fails"
  \/ \E i \in 1..Len(files[p].content) :
        ResolvedPath(files, files[p].content[i]) = NULL

YieldsNothing(p) ==
  \/ files[p].load # "content"
  \/ files[p].ext \notin {".js", ".py"}
  \/ files[p].ext = ".py" /\ files[p].python = "fails"
       /\ files[p].reread = "fails"

\* the text of p does not parse and the regex scans stand in
Unparseable(p) ==
  /\ ~YieldsNothing(p)
  /\ \/ files[p].ext = ".js" /\ files[p].syntax = "bad"
     \/ files[p].ext = ".py" /\ files[p].python = "fails"

\* the statement names a file of the project that is there, and is not
\* taken for an installed package
Resolvable(st) ==
  /\ st.to \in Paths
  /\ ~(st.source = "bare" /\ st.installed)

\* The import graph without the bad files: a file whose extraction yields
\* nothing or falls back has no imports, every other file imports what the
\* resolvable statements of its syntax tree name (for Python, module level
\* before nested).
WithoutBad ==
  [p \in Paths |->
     IF YieldsNothing(p) \/ Unparseable(p) THEN <<>>
     ELSE LET Top(st)  == Resolvable(st) /\ st.form \in {"import", "from"}
              Deep(st) == Resolvable(st) /\ st.form = "indented"
              Tree(st) == Resolvable(st) /\ st.form \notin {"quoted", "from"}
              sts == IF files[p].ext = ".py"
                     THEN SelectSeq(files[p].content, Top)
                            \o SelectSeq(files[p].content, Deep)
                     ELSE SelectSeq(files[p].content, Tree)
          IN [i \in 1..Len(sts) |-> sts[i].to]]

\* C13: whatever fails for one file, every dependency that the other roots
\* and files have without it is returned; when the bad files yield nothing
\* the returned list is exactly the list of the project without them; an
\* import that does not resolve takes none of the other imports of its file
\* with it.
C13_FailureContained ==
  pc = "done" =>
     /\ Range(getDependencies(WithoutBad, filePaths, maxDepth))
           \subseteq Range(result)
     /\ (\A p \in processed : ~Unparseable(p)) =>
           result = getDependencies(WithoutBad, filePaths, maxDepth)

\* C13 witness: a call has returned that read a file yielding nothing, and
\* its list holds a dependency of another file found after that
C13_Witness ==
  /\ pc = "done"
  /\ \E p \in processed :
        /\ YieldsNothing(p)
        /\ \E i, j \in 1..Len(result) :
              /\ i < j
              /\ result[i] = p
              /\ dependencyMap[j].foundBy # p

\* loadFile reports p as skipped: it cannot be read
Unreadable(p) == files[p].load = "skipped"

\* C14: a file that the resolver returned for an import of a file the call
\* extracted, and that cannot be read, is in the returned list, and no
\* entry of the list was found through it.
C14_UnreadableRetained ==
  pc = "done" =>
     \A p \in Paths :
        (Unreadable(p) /\ \E q \in processed : p \in Range(WithoutBad[q])) =>
           /\ p \in Range(result)
           /\ \A i \in 1..Len(dependencyMap) : dependencyMap[i].foundBy # p

\* C14 witness: the returned list holds an unreadable file that the call
\* entered and whose text imports a file that is not in the list
C14_Witness ==
  /\ pc = "done"
  /\ \E p \in processed \ Roots :
        /\ Unreadable(p)
        /\ p \in Range(result)
        /\ Named(p) # <<>>
        /\ Range(Named(p)) \cap Range(result) = {}

\* the statement is a bare specifier that node_modules has an entry for
Package(st) == st.source = "bare" /\ st.installed

\* resolveImportPath returns null for a bare specifier that node_modules
\* has an entry for, whatever the probes would find
ExternalAlwaysNull ==
  \A st \in StatVectors : resolveImportPath("bare", "ok", st) = Returns(0)

\* C15: a bare specifier found under node_modules resolves to null whatever
\* exists next to the importing file, and a returned path is always named
\* by a statement, of a file the call read, that is no such specifier.
C15_ExternalExcluded ==
  /\ ExternalAlwaysNull
  /\ pc = "done" =>
        \A t \in Range(result) :
           \E q \in processed :
              \E i \in 1..Len(files[q].content) :
                 /\ files[q].content[i].to = t
                 /\ ~Package(files[q].content[i])

\* C15 witness: a call has returned that read a file importing an installed
\* package by a bare name, a file of that name lies next to the importer,
\* and nothing was returned for it
C15_Witness ==
  /\ pc = "done"
  /\ \E q \in processed :
        /\ ~YieldsNothing(q)
        /\ \E i \in 1..Len(files[q].content) :
              /\ Package(files[q].content[i])
              /\ files[q].content[i].form = "import"
              /\ files[q].content[i].to \in Paths
              /\ "file" \in Range(StatAt(files, files[q].content[i].to))
              /\ files[q].content[i].to \notin Range(result)

\* the call of resolveImportPath has returned after probing the candidates
Probed ==
  /\ resolving.outcome.status = "returns"
  /\ ~(resolving.importSource = "bare" /\ resolving.access = "ok")

\* C16: the suffixes are tried in the order '', .js, .jsx, .ts, .tsx, .py,
\* /index.js, /index.ts; the call returns the first candidate that is a
\* regular file, never a directory, and null when there is none.
C16_ProbingOrder ==
  /\ extensions =
       <<"", ".js", ".jsx", ".ts", ".tsx", ".py", "/index.js", "/index.ts">>
  /\ Probed =>
        LET v == resolving.outcome.value
        IN IF \A i \in 1..Len(extensions) : resolving.stat[i] # "file"
           THEN v = 0
           ELSE /\ v \in 1..Len(extensions)
                /\ resolving.stat[v] = "file"
                /\ \A j \in 1..(v - 1) : resolving.stat[j] # "file"

\* C16 witness: a call has returned a candidate that is tried after a
\* candidate that is a directory
C16_Witness ==
  /\ Probed
  /\ \E i, j \in 1..Len(extensions) :
        /\ i < j
        /\ resolving.stat[i] = "dir"
        /\ resolving.stat[j] = "file"
        /\ resolving.outcome.value = j

\* C17: no call of resolveImportPath throws; a probe whose stat fails, and
\* a failing look into node_modules, count as nothing there, and the later
\* candidates are still probed.
C17_ResolverCatches ==
  /\ resolving.outcome.status # "throws"
  /\ resolving.outcome.status = "returns" =>
        /\ resolving.importSource = "bare" => Probed \/ resolving.outcome.value = 0
        /\ \A i \in 1..Len(extensions) :
              resolving.stat[i] = "error" =>
                 /\ resolving.outcome.value # i
                 /\ \A j \in (i + 1)..Len(extensions) :
                       (Probed /\ resolving.stat[j] = "file"
                          /\ \A k \in 1..(j - 1) : resolving.stat[k] # "file")
                       => resolving.outcome.value = j

\* C17 witness: a call has returned a candidate tried after one whose stat
\* failed with an error other than a missing file
C17_Witness ==
  /\ Probed
  /\ \E i, j \in 1..Len(extensions) :
        /\ i < j
        /\ resolving.stat[i] = "error"
        /\ resolving.outcome.value = j

\* the files whose text the call handed to an extractor
Extracted ==
  {p \in processed : files[p].load = "content" /\ files[p].ext \in {".js", ".py"}}

\* C18: the extraction of imports from a file never throws: for JavaScript
\* or Python, parseable or not, with a working or a failing python3 child,
\* it returns a list.
C18_ExtractorNeverFails ==
  \A p \in Extracted : ImportsOf(files[p]).status # "throws"

Scanned(content, first, second) ==
  LET First(st)  == st.form \in first
      Second(st) == st.form \in second
  IN SelectSeq(content, First) \o SelectSeq(content, Second)

C20_CallsIndependent ==
  /\ pc = "done" => result = getDependencies(imports, filePaths, maxDepth)
  /\ other.pc = "done" =>
        other.result = getDependencies(imports, other.filePaths, maxDepth)

\* C20 witness: both calls have returned a non-empty list, they processed a
\* file in common, and the second took steps while the first was underway
C20_Witness ==
  /\ pc = "done"
  /\ other.pc = "done"
  /\ other.met
  /\ processed \cap other.processed # {}
  /\ result # <<>>
  /\ other.result # <<>>

\* The command line of crc and the two configuration files, before the
\* program has looked at them.  argv.depth stands for a --depth <n> on the
\* command line, an option the program does not declare.
ScanInit ==
  /\ \E deep, clean, branch, providers \in BOOLEAN,
        commits \in Maybe({0, 3, MaxCommits + 1}),
        depth, global, project \in Maybe(DepthInputs) :
        scan = [NoScan EXCEPT !.argv = [deep |-> deep, clean |-> clean,
                                         commits |-> commits,
                                         branch |-> branch, depth |-> depth],
                              !.global = global, !.project = project,
                              !.providers = providers, !.stage = "argv"]
  /\ maxDepth = 0
  /\ imports = [p \in Paths |-> <<>>]
  /\ files = HealthyDisk(imports)
  /\ settles = [p \in Paths |-> "returns"]
  /\ realpath = [p \in Paths |-> p]
  /\ filePaths = <<>>
  /\ dependencyMap = <<>>
  /\ processed = {}
  /\ stack = <<>>
  /\ rootIdx = 1
  /\ pc = "none"
  /\ result = <<>>
  /\ resolving = NotResolving
  /\ other = NoCall
  /\ loading = NoLoad

\* what a step of the command leaves alone
aboutScan == <<imports, realpath, filePaths, files, settles, loading,
               dependencyMap, processed, stack, rootIdx, pc, result,
               resolving, other>>

\* program.parse and the default action: an option that is not declared
\* ends the program, so do two review types at once and a commit count out
\* of range; --clean and --deep print a line; otherwise fastScanCommand is
\* called
Cli ==
  /\ scan.stage = "argv"
  /\ LET argv        == scan.argv
         commitCount == argv.commits
         reviewTypes == (IF commitCount # <<>> /\ commitCount # <<0>>
                         THEN 1 ELSE 0)
                        + (IF argv.branch THEN 1 ELSE 0)
     IN scan' =
          IF argv.depth # <<>> THEN [scan EXCEPT !.stage = "exit"]
          ELSE IF reviewTypes > 1 THEN [scan EXCEPT !.stage = "exit"]
          ELSE IF commitCount # <<>> /\ commitCount[1] \notin 1..MaxCommits
               THEN [scan EXCEPT !.stage = "exit"]
          ELSE IF argv.clean \/ argv.deep
               THEN [scan EXCEPT !.stage = "printed"]
          ELSE [scan EXCEPT !.stage = "scan", !.options = scanOptions(argv)]
  /\ UNCHANGED <<aboutScan, maxDepth>>

\* fastScanCommand up to "Load config": an invalid configuration, and one
\* without an enabled provider, end the program
LoadConfig ==
  /\ scan.stage = "scan"
  /\ LET config == loadConfig(scan.global, scan.project)
     IN scan' =
          IF config.status = "throws" \/ ~scan.providers
          THEN [scan EXCEPT !.stage = "exit"]
          ELSE [scan EXCEPT !.stage = "config", !.config = config.value]
  /\ UNCHANGED <<aboutScan, maxDepth>>

\* fastScanCommand from "Determine dependency depth" to the call of
\* getDependencies(filePaths, maxDepth)
DetermineDepth ==
  /\ scan.stage = "config"
  /\ maxDepth' = maxDepthOf(scan.options.deep, scan.options.depth,
                            scan.config)
  /\ scan' = [scan EXCEPT !.stage = "deps"]
  /\ UNCHANGED aboutScan

ScanNext == Cli \/ LoadConfig \/ DetermineDepth

ScanSpec == ScanInit /\ [][ScanNext]_vars

\* C21: the maxDepth that the scan command passes to getDependencies is
\* Infinity or an integer from 1 to 5, whatever the command line and the
\* configuration files hold.
C21_DepthInRange ==
  scan.stage = "deps" =>
     maxDepth = Infinity \/ maxDepth \in DepthMin..DepthMax

\* C21 witness: the command passes the largest depth, which the project's
\* configuration set over a different one of the global configuration
C21_Witness ==
  /\ scan.stage = "deps"
  /\ maxDepth = DepthMax
  /\ scan.project = <<DepthMax>>
  /\ scan.global # <<>>
  /\ scan.global # scan.project

\* A call loadFiles(filePaths) at its start: up to MaxFiles paths, the i-th
\* named i, and for each what the disk holds there; no promise has settled.
LoaderInit ==
  /\ \E n \in 0..MaxFiles :
       \E es \in [1..n -> Entries] :
          loading = [inputs |-> es,
                     settled |-> [i \in 1..n |-> "pending"],
                     outcome |-> Pending]
  /\ scan = NoScan
  /\ maxDepth = Infinity
  /\ imports = [p \in Paths |-> <<>>]
  /\ files = HealthyDisk(imports)
  /\ settles = [p \in Paths |-> "returns"]
  /\ realpath = [p \in Paths |-> p]
  /\ filePaths = <<>>
  /\ dependencyMap = <<>>
  /\ processed = {}
  /\ stack = <<>>
  /\ rootIdx = 1
  /\ pc = "none"
  /\ result = <<>>
  /\ resolving = NotResolving
  /\ other = NoCall

\* what a step of loadFiles leaves alone
aboutLoad == <<imports, realpath, filePaths, maxDepth, files, settles, scan,
               dependencyMap, processed, stack, rootIdx, pc, result,
               resolving, other>>

\* the results of the promises of filePaths.map(loadFile) that returned
ResultsOf(l) ==
  [i \in 1..Len(l.inputs) |-> loadFileFrom(i, l.inputs[i]).value]

\* one of the promises of filePaths.map(loadFile) settles; they are all
\* underway at once and settle in any order
LoadOne ==
  /\ loading.outcome.status = "pending"
  /\ \E i \in 1..Len(loading.inputs) :
        /\ loading.settled[i] = "pending"
        /\ loading' = [loading EXCEPT !.settled[i] =
                         loadFileFrom(i, loading.inputs[i]).status]
  /\ UNCHANGED aboutLoad

\* Promise.all settles: rejected as soon as one promise has rejected,
\* fulfilled when all are, and loadFiles returns the split results
Collect ==
  /\ loading.outcome.status = "pending"
  /\ "throws" \in Range(loading.settled)
       \/ \A i \in 1..Len(loading.inputs) : loading.settled[i] = "returns"
  /\ loading' = [loading EXCEPT !.outcome =
                   IF "throws" \in Range(loading.settled)
                   THEN [status |-> "throws", value |-> loadFiles(<<>>)]
                   ELSE Returns(loadFiles(ResultsOf(loading)))]
  /\ UNCHANGED aboutLoad

LoaderNext == LoadOne \/ Collect

LoaderSpec == LoaderInit /\ [][LoaderNext]_vars

\* the result objects that stand for a loaded file and for a skipped one
IsLoadedResult(r) ==
  ~r.skipped /\ r.content \in {"", "text"} /\ r.reason = "none"

IsSkippedResult(r) ==
  /\ r.skipped
  /\ r.content = NULL
  /\ r.reason \in {"access", "size", "extension", "content", "read"}

\* C22: loadFile never throws; every path given to loadFiles has exactly
\* one result, in files when it was loaded (its content a string) and in
\* skipped otherwise (with the reason: not accessible, over 10MB, binary by
\* extension or by content, not readable), and total = loadedCount +
\* skippedCount = the number of paths.
C22_LoadFilesPartition ==
  /\ "throws" \notin Range(loading.settled)
  /\ loading.outcome.status # "throws"
  /\ loading.outcome.status = "returns" =>
        LET out == loading.outcome.value
            n   == Len(loading.inputs)
        IN /\ out.total = n
           /\ out.loadedCount + out.skippedCount = n
           /\ out.loadedCount = Len(out.files)
           /\ out.skippedCount = Len(out.skipped)
           /\ \A k \in 1..Len(out.files) : IsLoadedResult(out.files[k])
           /\ \A k \in 1..Len(out.skipped) : IsSkippedResult(out.skipped[k])
           /\ \A i \in 1..n :
                 Cardinality({k \in 1..Len(out.files) :
                                out.files[k].path = i})
                 + Cardinality({k \in 1..Len(out.skipped) :
                                  out.skipped[k].path = i}) = 1
           /\ \A i \in 1..n :
                 LET e == loading.inputs[i]
                 IN (\E k \in 1..Len(out.files) : out.files[k].path = i)
                    <=> /\ e.stat = "ok"
                        /\ e.size <= MAX_FILE_SIZE
                        /\ ~e.binaryExt
                        /\ e.head # "nul"
                        /\ e.read = "ok"

\* C22 witness: loadFiles has returned for two paths, a skipped one listed
\* first whose checks passed and whose read failed, and a loaded one of
\* exactly 10MB
C22_Witness ==
  /\ loading.outcome.status = "returns"
  /\ Len(loading.inputs) = 2
  /\ loading.outcome.value.loadedCount = 1
  /\ loading.outcome.value.skippedCount = 1
  /\ loading.outcome.value.skipped[1].path = 1
  /\ loading.outcome.value.skipped[1].reason = "read"
  /\ loading.outcome.value.files[1].size = <<MAX_FILE_SIZE>>

\* C23: with a finite maxDepth, no file reached at depth maxDepth or deeper
\* is handed to extractDependencies (the file of the k-th nested processFile
\* was reached at depth k - 1), and so no entry of the Map was discovered
\* deeper than maxDepth.
C23_NoExpansionAtLimit ==
  maxDepth # Infinity =>
     /\ Len(stack) <= maxDepth
     /\ \A i \in 1..Len(dependencyMap) : dependencyMap[i].level <= maxDepth

EntriesKept ==
  /\ Len(dependencyMap') >= Len(dependencyMap)
  /\ \A i \in 1..Len(dependencyMap) : dependencyMap'[i] = dependencyMap[i]

Entered(p) ==
  /\ Len(stack') > Len(stack)
  /\ stack'[Len(stack')].filePath = p

BareNotInstalled ==
  /\ resolving.outcome.status = "returns"
  /\ resolving.importSource = "bare"
  /\ resolving.access = "rejects"

\* C26: a bare specifier without an entry under node_modules is probed
\* next to the importing file with the suffixes of a relative one; the
\* call returns a path exactly when one of the candidates is a regular
\* file, and then the first such candidate.
C26_BareFallsThrough ==
  BareNotInstalled =>
     LET v == resolving.outcome.value
     IN /\ v # 0 <=> \E i \in 1..Len(extensions) : resolving.stat[i] = "file"
        /\ v # 0 =>
              /\ resolving.stat[v] = "file"
              /\ \A j \in 1..(v - 1) : resolving.stat[j] # "file"
        /\ resolving.outcome =
              resolveImportPath("relative", "rejects", resolving.stat)

\* C26 witness: a bare specifier without an entry under node_modules has
\* resolved to the file that a suffix completes
C26_Witness ==
  /\ BareNotInstalled
  /\ resolving.outcome.value > 1
  /\ resolving.stat[resolving.outcome.value] = "file"

\* a JavaScript file that the call extracted and whose text does not parse
UnparseableJS(p) ==
  /\ p \in Extracted
  /\ files[p].ext = ".js"
  /\ files[p].syntax = "bad"

\* the files that the statements of sts name, those that resolve
TargetsOf(sts) ==
  LET found == SelectSeq(sts, Resolvable)
  IN [i \in 1..Len(found) |-> found[i].to]

C28_PythonFallsBack ==
  \A p \in Extracted :
     (files[p].ext = ".py" /\ files[p].python # "answers") =>
        ImportsOf(files[p]) =
           Returns(Scanned(files[p].content, {"import", "quoted"}, {"from"}))

\* the root lists of up to MaxRoots entries that name the same files as
\* filePaths, in any order and with entries repeated
Reorderings == {r \in SeqsUpTo(Roots, MaxRoots) : Range(r) = Roots}

\* C29: the set of paths a call returns is that of every call with the
\* same roots in another order or with roots listed again; and the
\* iteration for a root that was processed before leaves the Set and the
\* Map as they are and enters no file.
C29_RootOrderIndependent ==
  /\ pc = "done" =>
        \A r \in Reorderings :
           Range(getDependencies(imports, r, maxDepth)) = Range(result)
  /\ (pc = "run" /\ stack = <<>> /\ rootIdx <= Len(filePaths)
        /\ filePaths[rootIdx] \in processed) =>
        /\ RootStepOf(Mine).processed = processed
        /\ RootStepOf(Mine).dependencyMap = dependencyMap
        /\ RootStepOf(Mine).stack = <<>>

\* C29 witness: a call on two roots has returned a list that the call with
\* the roots exchanged returns in another order
C29_Witness ==
  /\ pc = "done"
  /\ Len(filePaths) = 2
  /\ filePaths[1] # filePaths[2]
  /\ getDependencies(imports, <<filePaths[2], filePaths[1]>>, maxDepth)
        # result

\* the file is not handed to an extractor: it is of another language, or
\* the loader skipped it, or it is empty
NonExpandable(p) ==
  files[p].ext \notin {".js", ".py"} \/ files[p].load # "content"

\* C30: a dependency that resolved and that is of another extension than
\* .js/.jsx/.ts/.tsx/.py, or skipped by the loader, or empty, is in the
\* returned list exactly once; no imports are read from it and no entry of
\* the list was discovered through it.
C30_NonExpandableLeaves ==
  pc = "done" =>
     \A p \in Paths :
        (NonExpandable(p) /\ \E q \in processed : p \in Range(imports[q])) =>
           /\ Cardinality({i \in 1..Len(result) : result[i] = p}) = 1
           /\ imports[p] = <<>>
           /\ \A i \in 1..Len(dependencyMap) : dependencyMap[i].foundBy # p

\* C30 witness: the returned list holds a file of another extension, which
\* the call entered and whose text names a file that is not in the list
C30_Witness ==
  /\ pc = "done"
  /\ \E p \in processed \ Roots :
        /\ files[p].ext = ".md"
        /\ files[p].load = "content"
        /\ p \in Range(result)
        /\ Named(p) # <<>>
        /\ Range(Named(p)) \cap Range(result) = {}

=============================================================================
